---- MODULE Spec2Model ----
(***************************************************************************)
(* Model of runners/capture-vm/capture-agent.py: the capture agent's       *)
(* lifecycle controller.  One HTTP server thread (HTTPServer is not the    *)
(* threading server, so requests are handled one after the other) and the  *)
(* daemon threads started by accepted /stop requests share the module      *)
(* globals state, procs and lock.                                          *)
(*                                                                         *)
(* Environment outcomes are nondeterministic choices: whether a launched   *)
(* tcpdump opens its output file or exits at once, how each tcpdump        *)
(* answers SIGTERM, whether compressing or uploading one file raises, what *)
(* the webhook answers.  subprocess.Popen itself is taken to succeed (the  *)
(* tcpdump binary is present); a tcpdump that cannot start is the process  *)
(* that exits non-zero without writing its file.                           *)
(***************************************************************************)
EXTENDS Integers, Sequences, FiniteSets, TLC

\* ---------------------------------------------------------------- bounds
MaxRunners  == 2     \* longest runner list of a /start request
MaxRequests == 3     \* HTTP requests served in one process lifetime

\* ---------------------------------------------------------------- inputs
\* One run id: an orchestrator that retries a start reuses it, and the phase
\* never returns to idle once a start was accepted.
RunIds   == {"r1"}
Runners  == {"curl", "chrome", "bogus"}   \* "bogus" has no capture profile
Families == <<"ipv4", "ipv6">>

\* Keys of RUNNER_PROFILES.
RUNNER_PROFILES == {"curl", "chrome"}

RunnerLists == UNION {[1..n -> Runners] : n \in 0..MaxRunners}

VARIABLES
    phase,              \* state["phase"]
    run_id,             \* state["run_id"]; "None" until a start is accepted
    last_webhook_http,  \* state["last_webhook_http"]; "absent" until written
    procs,              \* procs: capture key -> Popen handle
    orphans,            \* running subprocesses whose handle procs no longer holds
    sigterms,           \* capture keys stop_capture has sent SIGTERM (line 77)
    lock,               \* who holds lock: Free, Http or Task(t)
    files,              \* raw capture files in PCAP_DIR
    gzs,                \* compressed artifacts in PCAP_DIR
    blobs,              \* blob name -> number of upload_blob calls that succeeded
    posts,              \* the manifests notify_offsite has POSTed, in order
    http,               \* the server thread: position, request, locals (rid:
                        \* run_id of line 194; rcs: the return codes of line 83)
    resp,               \* the last response written by a handler
    nreq,               \* requests received so far
    tasks               \* the finish() threads, in spawn order

vars == <<phase, run_id, last_webhook_http, procs, orphans, sigterms, lock,
          files, gzs, blobs, posts, http, resp, nreq, tasks>>

\* ------------------------------------------------------------ file names
\* pcap_path: "<run_id>-<runner>-<ip_family>.pcap", kept as its three parts.
pcap_path(rid, runner, fam) == <<rid, runner, fam>>

\* Position of a file name in sorted(): the run_id is the common prefix of
\* one glob, "chrome" < "curl" and "ipv4" < "ipv6" as strings.
RunnerRank(r) == IF r = "chrome" THEN 0 ELSE IF r = "curl" THEN 1 ELSE 2
FamRank(f)    == IF f = "ipv4" THEN 0 ELSE 1
FileRank(f)   == 2 * RunnerRank(f[2]) + FamRank(f[3])

RECURSIVE SortedSeq(_)
SortedSeq(S) ==
    IF S = {} THEN <<>>
    ELSE LET m == CHOOSE x \in S : \A y \in S : FileRank(x) <= FileRank(y)
         IN  <<m>> \o SortedSeq(S \ {m})

\* A glob that matches the files of one IP family only.
GlobSortedOneFamily(rid, fs) == SortedSeq({f \in fs : f[1] = rid /\ f[3] = Families[1]})

\* PCAP_DIR.glob(f"{run_id}-*.pcap"), sorted.
GlobSorted(rid, fs) == SortedSeq({f \in fs : f[1] = rid})

\* ------------------------------------------------------------- responses
NoReq   == [run_id |-> "-", runners |-> <<>>, ph0 |-> "-"]
Reply(path, code) ==
    [path |-> path, code |-> code, phase |-> "-", run_id |-> "-", lwh |-> "-"]
\* A handler that raises sends nothing: socketserver logs the exception and
\* closes the connection.
NoReply(path) == Reply(path, "none")

EmptyMap == [k \in {} |-> "-"]

\* Holders of the threading.Lock.
Free    == <<"free">>
Http    == <<"http">>
Task(t) == <<"task", t>>

Init ==
    /\ phase = "idle"
    /\ run_id = "None"
    /\ last_webhook_http = "absent"
    /\ procs = EmptyMap
    /\ orphans = 0
    /\ sigterms = {}
    /\ lock = Free
    /\ files = {}
    /\ gzs = {}
    /\ blobs = EmptyMap
    /\ posts = <<>>
    /\ http = [pc |-> "idle", req |-> NoReq, rid |-> "-", rcs |-> {}]
    /\ resp = Reply("-", "-")
    /\ nreq = 0
    /\ tasks = <<>>

\* ------------------------------------------------------ Process Supervisor
\* The runners start_capture reaches before RUNNER_PROFILES[runner] raises
\* KeyError (line 66), each with both IP families (line 63), in launch order.
RECURSIVE Launches(_)
Launches(rs) ==
    IF rs = <<>> \/ Head(rs) \notin RUNNER_PROFILES THEN <<>>
    ELSE <<<<Head(rs), Families[1]>>, <<Head(rs), Families[2]>>>>
         \o Launches(Tail(rs))

\* start_capture raises part-way: some runner has no profile.
StartRaises(rs) == \E i \in DOMAIN rs : rs[i] \notin RUNNER_PROFILES

\* One Popen handle.  A tcpdump that opened its output file is "running";
\* one that could not (bad interface, bad filter) has "exited" non-zero.
Handle(opened) == [st |-> IF opened THEN "running" ELSE "exited"]

\* The capture keys of a launch sequence.
KeysOf(L) == {L[i] : i \in DOMAIN L}

\* The loop of lines 62-69 over the launches L: procs[key] =
\* subprocess.Popen(...) keeps, per key, the handle of the last launch under
\* that key.  opened[key]: whether the tcpdump commands of that key (the same
\* command line each time within one request) get to open their output file.
ProcsAfterStart(p, L, opened) ==
    [k \in DOMAIN p \cup KeysOf(L) |->
       IF k \in KeysOf(L) THEN Handle(opened[k]) ELSE p[k]]

\* The launches whose assignment on line 69 overwrites the only reference
\* to a process that is running: an earlier launch of this loop under the
\* same key, or an entry a start that raised left in the table.
Overwritten(p, L, opened) ==
    {i \in DOMAIN L :
       \/ (\E j \in 1..(i - 1) : L[j] = L[i]) /\ opened[L[i]]
       \/ /\ \A j \in 1..(i - 1) : L[j] # L[i]
          /\ L[i] \in DOMAIN p
          /\ p[L[i]].st = "running"}

\* A start_capture that writes state["run_id"] before the loop, and so also
\* when the loop raises.
start_captureRunIdFirst(rid, rs, opened) ==
    LET L == Launches(rs)
    IN  /\ procs' = ProcsAfterStart(procs, L, opened)
        /\ orphans' = orphans + Cardinality(Overwritten(procs, L, opened))
        /\ files' = files \cup {pcap_path(rid, k[1], k[2]) : k \in {x \in KeysOf(L) : opened[x]}}
        /\ run_id' = rid
        /\ IF StartRaises(rs)
           THEN UNCHANGED phase
           ELSE phase' = "capturing"

\* start_capture(run_id, runners), lines 61-71: the launches, then the two
\* writes of state unless the loop raised.
start_capture(rid, rs, opened) ==
    LET L == Launches(rs)
    IN  /\ procs' = ProcsAfterStart(procs, L, opened)
        /\ orphans' = orphans + Cardinality(Overwritten(procs, L, opened))
        /\ files' = files \cup {pcap_path(rid, k[1], k[2]) : k \in {x \in KeysOf(L) : opened[x]}}
        /\ IF StartRaises(rs)
           THEN UNCHANGED <<phase, run_id>>
           ELSE phase' = "capturing" /\ run_id' = rid

\* What proc.wait(timeout=10) and proc.kill() leave as the end of one
\* subprocess (lines 78-83).
Outcomes == {"exit0", "exitNZ", "killed"}

\* A stop_capture that drops an entry only where the wait returned, and
\* keeps the entries of the processes it had to kill.
ProcsAfterStopKeepingKilled(p, outcome) ==
    [k \in {x \in DOMAIN p : p[x].st = "running" /\ outcome[x] = "killed"} |-> p[k]]

\* The table after stop_capture: procs.clear() on line 84 is outside the
\* try, so it runs whatever the waits returned.
ProcsAfterStop(p, outcome) == EmptyMap

\* The distinct return codes line 83 logs.
ReturnCodes(p, outcome) ==
    {IF p[k].st = "exited" THEN "exitNZ" ELSE outcome[k] : k \in DOMAIN p}

\* stop_capture(), lines 74-84: SIGTERM to every supervised process, wait
\* for each, kill on timeout, log the return code, clear the table.
stop_capture(outcome) ==
    /\ sigterms' = sigterms \cup DOMAIN procs
    /\ procs' = ProcsAfterStop(procs, outcome)

\* --------------------------------------------------------- Control Surface
\* Phase checks that also let a finished agent start again, and let /stop
\* through in any phase but idle.
StartAllowedAlsoDone(ph) == ph \in {"idle", "done"}
StopAllowedNotIdle(ph)   == ph # "idle"

\* Lines 181 and 191: the phase checks of /start and /stop.
StartAllowed(ph) == ph = "idle"
StopAllowed(ph)  == ph = "capturing"

\* The server thread between two requests.
Idle == [pc |-> "idle", req |-> NoReq, rid |-> "-", rcs |-> {}]

Served == /\ http.pc = "idle"
          /\ nreq < MaxRequests
          /\ nreq' = nreq + 1

\* do_GET /status, lines 169-171: json.dumps(state) with no lock taken.
Status ==
    /\ Served
    /\ resp' = [path |-> "status", code |-> "200", phase |-> phase,
                run_id |-> run_id, lwh |-> last_webhook_http]
    /\ UNCHANGED <<phase, run_id, last_webhook_http, procs, orphans,
                   sigterms, lock, files, gzs, blobs, posts, http, tasks>>

\* Any other path, GET (line 173) or POST with a parsable body (line 210).
NotFound ==
    /\ Served
    /\ resp' = Reply("other", "404")
    /\ UNCHANGED <<phase, run_id, last_webhook_http, procs, orphans,
                   sigterms, lock, files, gzs, blobs, posts, http, tasks>>

\* do_POST with a body that is not JSON: json.loads raises on line 177,
\* before the path is looked at; nothing is sent.
PostMalformed ==
    /\ Served
    /\ resp' = NoReply("post")
    /\ UNCHANGED <<phase, run_id, last_webhook_http, procs, orphans,
                   sigterms, lock, files, gzs, blobs, posts, http, tasks>>

\* POST /start arrives with a body that parses (lines 176-179).  ph0
\* remembers the phase at arrival; what the body holds is drawn where the
\* handler first reads it (lines 184-185).
RecvStart ==
    /\ Served
    /\ http' = [Idle EXCEPT !.pc = "start_lock", !.req = [NoReq EXCEPT !.ph0 = phase]]
    /\ UNCHANGED <<phase, run_id, last_webhook_http, procs, orphans,
                   sigterms, lock, files, gzs, blobs, posts, resp, tasks>>

\* POST /stop arrives; its body is parsed and never read.
RecvStop ==
    /\ Served
    /\ http' = [Idle EXCEPT !.pc = "stop_lock", !.req = [NoReq EXCEPT !.ph0 = phase]]
    /\ UNCHANGED <<phase, run_id, last_webhook_http, procs, orphans,
                   sigterms, lock, files, gzs, blobs, posts, resp, tasks>>

\* "with lock:" entered by a handler (lines 180, 190).
HttpAcquire ==
    /\ http.pc \in {"start_lock", "stop_lock"}
    /\ lock = Free
    /\ lock' = Http
    /\ http' = [http EXCEPT !.pc = IF http.pc = "start_lock" THEN "start_cs" ELSE "stop_cs"]
    /\ UNCHANGED <<phase, run_id, last_webhook_http, procs, orphans,
                   sigterms, files, gzs, blobs, posts, resp, nreq, tasks>>

\* /start, lines 181-183: 409 from inside the with block.
StartConflict ==
    /\ http.pc = "start_cs"
    /\ ~StartAllowed(phase)
    /\ resp' = Reply("start", "409")
    /\ lock' = Free
    /\ http' = Idle
    /\ UNCHANGED <<phase, run_id, last_webhook_http, procs, orphans,
                   sigterms, files, gzs, blobs, posts, nreq, tasks>>

\* /start, lines 184-185: body.get on a JSON value that is no object raises
\* AttributeError; the with block releases the lock and nothing is sent.
StartBadBody ==
    /\ http.pc = "start_cs"
    /\ StartAllowed(phase)
    /\ resp' = NoReply("start")
    /\ lock' = Free
    /\ http' = Idle
    /\ UNCHANGED <<phase, run_id, last_webhook_http, procs, orphans,
                   sigterms, files, gzs, blobs, posts, nreq, tasks>>

\* /start, lines 184-185: run_id and runners read from a JSON object.
StartReadBody ==
    /\ http.pc = "start_cs"
    /\ StartAllowed(phase)
    /\ \E rid \in RunIds, rs \in RunnerLists :
         http' = [http EXCEPT !.pc = "start_run", !.req.run_id = rid, !.req.runners = rs]
    /\ UNCHANGED <<phase, run_id, last_webhook_http, procs, orphans,
                   sigterms, lock, files, gzs, blobs, posts, resp, nreq, tasks>>

\* /start, lines 186-187: start_capture under the lock, then 200; or the
\* KeyError of start_capture leaves the with block and nothing is sent.
StartAccept ==
    /\ http.pc = "start_run"
    /\ \E opened \in [KeysOf(Launches(http.req.runners)) -> BOOLEAN] :
         start_capture(http.req.run_id, http.req.runners, opened)
    /\ resp' = IF StartRaises(http.req.runners) THEN NoReply("start")
               ELSE [Reply("start", "200") EXCEPT !.run_id = http.req.run_id]
    /\ lock' = Free
    /\ http' = Idle
    /\ UNCHANGED <<last_webhook_http, sigterms, gzs, blobs, posts,
                   nreq, tasks>>

\* /stop, lines 191-193: 409 from inside the with block.
StopConflict ==
    /\ http.pc = "stop_cs"
    /\ ~StopAllowed(phase)
    /\ resp' = Reply("stop", "409")
    /\ lock' = Free
    /\ http' = Idle
    /\ UNCHANGED <<phase, run_id, last_webhook_http, procs, orphans,
                   sigterms, files, gzs, blobs, posts, nreq, tasks>>

\* /stop, lines 194-195: the synchronous portion; the lock is released when
\* stop_capture has returned.
StopAccept ==
    /\ http.pc = "stop_cs"
    /\ StopAllowed(phase)
    /\ \E outcome \in [DOMAIN procs -> Outcomes] :
         /\ stop_capture(outcome)
         /\ http' = [http EXCEPT !.pc = "stop_spawn", !.rid = run_id,
                                 !.rcs = ReturnCodes(procs, outcome)]
    /\ lock' = Free
    /\ UNCHANGED <<phase, run_id, last_webhook_http, orphans, files, gzs, blobs,
                   posts, resp, nreq, tasks>>

\* A finish() thread as threading.Thread(...).start() leaves it.
NewTask(rid) ==
    [pc |-> "spawned", run_id |-> rid, todo |-> <<>>, results |-> <<>>, wh |-> "-"]

\* A finish() thread that has ended, by return or by an uncaught exception:
\* its locals are gone.
Ended(rid, how) == [NewTask(rid) EXCEPT !.pc = how]

\* /stop, lines 206-207: start the finish() thread, answer 200.
StopSpawn ==
    /\ http.pc = "stop_spawn"
    /\ tasks' = Append(tasks, NewTask(http.rid))
    /\ resp' = [Reply("stop", "200") EXCEPT !.run_id = http.rid]
    /\ http' = Idle
    /\ UNCHANGED <<phase, run_id, last_webhook_http, procs, orphans,
                   sigterms, lock, files, gzs, blobs, posts, nreq>>

\* ------------------------------------------- Artifact Pipeline and notify
\* A finish() that takes the lock before the pipeline, not after it.
TaskBeginUnderLock(t) ==
    /\ tasks[t].pc = "spawned"
    /\ lock = Free
    /\ lock' = Task(t)
    /\ phase' = "uploading"
    /\ LET todo == GlobSorted(tasks[t].run_id, files)
       IN  tasks' = [tasks EXCEPT ![t].todo = todo,
                                  ![t].pc = IF todo = <<>> THEN "notify" ELSE "compress"]
    /\ UNCHANGED <<run_id, last_webhook_http, procs, orphans,
                   sigterms, files, gzs, blobs, posts, http, resp, nreq>>

\* compress_and_upload, lines 90-94: the phase is written by the finish()
\* thread, which holds no lock here; then the sorted glob is evaluated, once,
\* before the first iteration.
TaskBegin(t) ==
    /\ tasks[t].pc = "spawned"
    /\ phase' = "uploading"
    /\ LET todo == GlobSorted(tasks[t].run_id, files)
       IN  tasks' = [tasks EXCEPT ![t].todo = todo,
                                  ![t].pc = IF todo = <<>> THEN "notify" ELSE "compress"]
    /\ UNCHANGED <<run_id, last_webhook_http, procs, orphans,
                   sigterms, lock, files, gzs, blobs, posts, http, resp, nreq>>

\* Lines 95-99 for the next file: gzip it, unlink the raw file.  open()
\* raises when the raw file is gone; the copy may raise (disk full), after
\* gzip.open has created the .gz.  No try/except: an exception ends finish().
TaskCompress(t) ==
    /\ tasks[t].pc = "compress"
    /\ LET f == Head(tasks[t].todo)
       IN  \/ /\ f \in files
              /\ files' = files \ {f}
              /\ gzs' = gzs \cup {f}
              /\ tasks' = [tasks EXCEPT ![t].pc = "upload"]
           \/ /\ f \in files
              /\ gzs' = gzs \cup {f}
              /\ tasks' = [tasks EXCEPT ![t] = Ended(@.run_id, "crashed")]
              /\ UNCHANGED files
           \/ /\ f \notin files
              /\ tasks' = [tasks EXCEPT ![t] = Ended(@.run_id, "crashed")]
              /\ UNCHANGED <<files, gzs>>
    /\ UNCHANGED <<phase, run_id, last_webhook_http, procs, orphans,
                   sigterms, lock, blobs, posts, http, resp, nreq>>

\* The Uploaded Artifact Record of lines 121-127, by its file name.
Record(f) == [key |-> f, blob_name |-> f]

BlobsAfterUpload(b, f) ==
    [k \in DOMAIN b \cup {f} |-> IF k \in DOMAIN b THEN b[k] + (IF k = f THEN 1 ELSE 0) ELSE 1]

\* Lines 101-128 for the same file: stat, upload_blob, unlink the .gz, sign,
\* append the record.  upload_blob may raise (network, credentials), and the
\* .gz then stays.  The .gz is there: only a thread that unlinked the raw
\* file gets here, and only one thread can have.
TaskUpload(t) ==
    /\ tasks[t].pc = "upload"
    /\ LET f    == Head(tasks[t].todo)
           rest == Tail(tasks[t].todo)
       IN  \/ /\ f \in gzs
              /\ blobs' = BlobsAfterUpload(blobs, f)
              /\ gzs' = gzs \ {f}
              /\ tasks' = [tasks EXCEPT ![t].results = Append(@, Record(f)),
                                        ![t].todo = rest,
                                        ![t].pc = IF rest = <<>> THEN "notify" ELSE "compress"]
           \/ /\ f \in gzs
              /\ tasks' = [tasks EXCEPT ![t] = Ended(@.run_id, "crashed")]
              /\ UNCHANGED <<gzs, blobs>>
    /\ UNCHANGED <<phase, run_id, last_webhook_http, procs, orphans,
                   sigterms, lock, files, posts, http, resp, nreq>>

\* What notify_offsite returns (lines 147-153): resp.status of a delivered
\* POST, or 0 for any exception of urlopen (unreachable, timeout, and the
\* HTTPError urllib raises for a 4xx or 5xx answer).
WebhookResults == {"200", "0"}

\* finish(), line 200: notify_offsite(run_id, pcap_files), one POST.
TaskNotify(t) ==
    /\ tasks[t].pc = "notify"
    /\ posts' = Append(posts, [run_id |-> tasks[t].run_id,
                               pcap_files |-> tasks[t].results])
    /\ \E wh \in WebhookResults :
         tasks' = [tasks EXCEPT ![t].wh = wh, ![t].pc = "publish"]
    /\ UNCHANGED <<phase, run_id, last_webhook_http, procs, orphans,
                   sigterms, lock, files, gzs, blobs, http, resp, nreq>>

\* finish(), line 201: "with lock:".
TaskAcquire(t) ==
    /\ tasks[t].pc = "publish"
    /\ lock = Free
    /\ lock' = Task(t)
    /\ tasks' = [tasks EXCEPT ![t].pc = "set_phase"]
    /\ UNCHANGED <<phase, run_id, last_webhook_http, procs, orphans,
                   sigterms, files, gzs, blobs, posts, http, resp, nreq>>

\* finish(), line 202.
TaskSetDone(t) ==
    /\ tasks[t].pc = "set_phase"
    /\ phase' = "done"
    /\ tasks' = [tasks EXCEPT ![t].pc = "set_wh"]
    /\ UNCHANGED <<run_id, last_webhook_http, procs, orphans,
                   sigterms, lock, files, gzs, blobs, posts, http, resp, nreq>>

\* finish(), line 203, and the end of the with block.
TaskSetWebhook(t) ==
    /\ tasks[t].pc = "set_wh"
    /\ last_webhook_http' = tasks[t].wh
    /\ lock' = Free
    /\ tasks' = [tasks EXCEPT ![t] = Ended(@.run_id, "finished")]
    /\ UNCHANGED <<phase, run_id, procs, orphans,
                   sigterms, files, gzs, blobs, posts, http, resp, nreq>>

TaskStep(t) ==
    \/ TaskBegin(t)
    \/ TaskCompress(t)
    \/ TaskUpload(t)
    \/ TaskNotify(t)
    \/ TaskAcquire(t)
    \/ TaskSetDone(t)
    \/ TaskSetWebhook(t)

HttpStep ==
    \/ Status
    \/ NotFound
    \/ PostMalformed
    \/ RecvStart
    \/ RecvStop
    \/ HttpAcquire
    \/ StartConflict
    \/ StartBadBody
    \/ StartReadBody
    \/ StartAccept
    \/ StopConflict
    \/ StopAccept
    \/ StopSpawn

\* The steps of the finish() threads, of whichever thread.
Begin      == \E t \in DOMAIN tasks : TaskBegin(t)
Compress   == \E t \in DOMAIN tasks : TaskCompress(t)
Upload     == \E t \in DOMAIN tasks : TaskUpload(t)
Notify     == \E t \in DOMAIN tasks : TaskNotify(t)
Acquire    == \E t \in DOMAIN tasks : TaskAcquire(t)
SetDone    == \E t \in DOMAIN tasks : TaskSetDone(t)
SetWebhook == \E t \in DOMAIN tasks : TaskSetWebhook(t)

Next ==
    \/ HttpStep
    \/ Begin
    \/ Compress
    \/ Upload
    \/ Notify
    \/ Acquire
    \/ SetDone
    \/ SetWebhook

Spec == Init /\ [][Next]_vars

\* The server thread and every finish() thread keep being scheduled.
FairSpec ==
    /\ Spec
    /\ WF_vars(HttpStep)
    /\ \A t \in 1..MaxRequests : WF_vars(t \in DOMAIN tasks /\ TaskStep(t))

\* ================================================================ claims
PhaseOrder ==
    {<<"idle", "capturing">>, <<"capturing", "uploading">>, <<"uploading", "done">>}

\* The finish() threads that are still compressing, uploading or notifying.
Working(t) == tasks[t].pc \in {"spawned", "compress", "upload", "notify"}

\* A step of the server thread, and the one that answers GET /status.
HttpMoves    == http' # http
StatusServed == nreq' # nreq /\ resp'.path = "status"

\* C1: the phase only ever changes along idle -> capturing -> uploading ->
\* done, one step at a time; it never moves backwards and never leaves done.
C1_PhaseSequential ==
    [][phase' # phase => <<phase, phase'>> \in PhaseOrder]_vars

\* C2: after every accepted stop (200), under fair scheduling, the phase
\* eventually becomes done, whatever failed on the way.
C2_StopLeadsToDone ==
    (resp.path = "stop" /\ resp.code = "200") ~> (phase = "done")

\* C3: exactly one background task is spawned per run; no later request
\* spawns a second one.
C3_OneTaskPerRun ==
    \A t1, t2 \in DOMAIN tasks : tasks[t1].run_id = tasks[t2].run_id => t1 = t2

\* C4: whenever status reports phase done (do_GET answers with the phase of
\* the state it is served in), no background task is still compressing,
\* uploading or notifying.
C4_DoneMeansFinished ==
    phase = "done" => \A t \in DOMAIN tasks : ~Working(t)

\* A valid runner list, read as strictly as the spec allows: every entry has
\* a capture profile and no runner is named twice.
ValidRunnerList(rs) ==
    /\ \A i \in DOMAIN rs : rs[i] \in RUNNER_PROFILES
    /\ \A i, j \in DOMAIN rs : rs[i] = rs[j] => i = j

\* C5: a start with a valid runner list received while idle returns 200,
\* leaves phase = capturing and the table holding exactly 2 x |runners|
\* entries.
C5_StartPopulates ==
    [][(http.pc = "start_run" /\ HttpMoves /\ http.req.ph0 = "idle"
          /\ ValidRunnerList(http.req.runners))
         => /\ resp'.path = "start" /\ resp'.code = "200"
            /\ phase' = "capturing"
            /\ Cardinality(DOMAIN procs') = 2 * Len(http.req.runners)]_vars

\* C6: a start received while the phase is capturing, uploading or done
\* returns 409 and changes neither phase, run_id nor the table, and launches
\* no subprocess.
C6_StartConflictNoChange ==
    [][(http.pc = "start_cs" /\ HttpMoves /\ http.req.ph0 # "idle")
         => /\ resp'.path = "start" /\ resp'.code = "409"
            /\ UNCHANGED <<phase, run_id, procs, orphans, files>>]_vars

C6_Witness ==
    /\ resp.path = "start" /\ resp.code = "409"
    /\ phase = "done"
    /\ run_id # "None"

\* C7: a stop received while the phase is idle, uploading or done returns
\* 409, sends no termination signal, spawns no background task and changes
\* neither phase, run_id nor the table.
C7_StopConflictNoChange ==
    [][(http.pc = "stop_cs" /\ HttpMoves /\ http.req.ph0 # "capturing")
         => /\ resp'.path = "stop" /\ resp'.code = "409"
            /\ UNCHANGED <<phase, run_id, procs, sigterms, tasks>>]_vars

C7_Witness ==
    /\ resp.path = "stop" /\ resp.code = "409"
    /\ phase = "uploading"
    /\ Len(tasks) = 1

\* C8: when an accepted stop has completed its synchronous portion, the
\* table is empty, whether the subprocesses exited with 0, exited non-zero
\* or were killed after the wait bound.
C8_TableEmptyAfterStop ==
    http.pc = "stop_spawn" => DOMAIN procs = {}

C8_Witness ==
    /\ http.pc = "stop_spawn"
    /\ http.rcs = Outcomes
    /\ Cardinality(sigterms) >= 3
    /\ DOMAIN procs = {}

\* C9: in every reachable state in which the phase is idle or done, the
\* table is empty.
C9_TableEmptyWhenIdleOrDone ==
    phase \in {"idle", "done"} => DOMAIN procs = {}

\* C10: every write of phase, run_id and the webhook status, and the read
\* of the state by status, happens while the state lock is held.
C10_StateUnderLock ==
    [][/\ (phase' # phase \/ run_id' # run_id \/ last_webhook_http' # last_webhook_http)
            => lock # Free
       /\ StatusServed => lock = Http]_vars

\* Every raw capture file a start can create.
AllFiles == {pcap_path(rid, r, Families[i]) :
               rid \in RunIds, r \in RUNNER_PROFILES, i \in DOMAIN Families}

\* Some finish() thread has ended by an exception of compression or upload.
SomeCrashed == \E t \in DOMAIN tasks : tasks[t].pc = "crashed"

\* The file is recorded in a result list handed to notify_offsite.
Notified(f) ==
    \E i \in DOMAIN posts : \E j \in DOMAIN posts[i].pcap_files :
       posts[i].pcap_files[j] = Record(f)

\* C11: when compression or upload has failed for one file of a run, every
\* other raw capture file of the run (one the failure did not touch: its raw
\* file is there and no .gz of it was begun) is still uploaded, and its
\* record is in the list handed to the notification dispatcher.
C11_FailureIsolatedPerFile ==
    \A f \in AllFiles :
       (SomeCrashed /\ f \in files /\ f \notin gzs)
          ~> (f \in DOMAIN blobs /\ Notified(f))

\* C12: when the webhook POST has failed (notify_offsite returned 0), the
\* phase still reaches done, and from then on the state every status
\* response is read from keeps phase = done and last_webhook_http = 0.
C12_WebhookFailureReported ==
    (\E t \in DOMAIN tasks : tasks[t].wh = "0")
       ~> [](phase = "done" /\ last_webhook_http = "0")

\* C13: for each run the manifest is POSTed to the webhook at most once,
\* whatever the requests and however the threads interleave.
C13_OnePostPerRun ==
    \A i, j \in DOMAIN posts : posts[i].run_id = posts[j].run_id => i = j

\* The manifest a step POSTs, when the step is a call of notify_offsite.
Posting  == Len(posts') > Len(posts)
Manifest == posts'[Len(posts')]

\* C14: when the webhook POST for a run is issued, no pipeline of that run
\* is still to enumerate, compress or upload a file, and the manifest holds
\* the record of every artifact uploaded for that run, and only those, in
\* sorted order.
C14_PostAfterPipeline ==
    [][Posting =>
         /\ \A t \in DOMAIN tasks :
              tasks'[t].run_id = Manifest.run_id
                 => tasks'[t].pc \notin {"spawned", "compress", "upload"}
         /\ {Manifest.pcap_files[j].key : j \in DOMAIN Manifest.pcap_files}
               = {f \in DOMAIN blobs : f[1] = Manifest.run_id}
         /\ \A j, k \in DOMAIN Manifest.pcap_files :
              j < k => FileRank(Manifest.pcap_files[j].key)
                          < FileRank(Manifest.pcap_files[k].key)]_vars

\* The file names of a list of records, in order.
Keys(rs) == [j \in DOMAIN rs |-> rs[j].key]

\* The files one compress_and_upload call has to account for: those it has
\* recorded and those of its glob it has not reached yet.
Accounted(task) == Keys(task.results) \o task.todo

KeyFile(rid, k) == pcap_path(rid, k[1], k[2])
FileKey(f)      == <<f[2], f[3]>>

\* How many records of the file the manifests POSTed for the run hold.
RECURSIVE CountIn(_, _)
CountIn(rs, f) ==
    IF rs = <<>> THEN 0
    ELSE (IF Head(rs).key = f THEN 1 ELSE 0) + CountIn(Tail(rs), f)

RECURSIVE RunRecords(_, _)
RunRecords(ps, rid) ==
    IF ps = <<>> THEN <<>>
    ELSE (IF Head(ps).run_id = rid THEN Head(ps).pcap_files ELSE <<>>)
         \o RunRecords(Tail(ps), rid)

\* C16: once a run has reached done, every capture key of the run has
\* exactly one Uploaded Artifact Record, every record is of a capture key of
\* the run, and no key was uploaded twice.
C16_RecordsMatchKeys ==
    phase = "done" =>
       LET recs == RunRecords(posts, run_id)
       IN  /\ \A k \in sigterms : CountIn(recs, KeyFile(run_id, k)) = 1
           /\ \A j \in DOMAIN recs :
                /\ recs[j].key[1] = run_id
                /\ FileKey(recs[j].key) \in sigterms
           /\ \A f \in DOMAIN blobs : blobs[f] <= 1

\* Where the lock is held: by the server thread inside the with blocks of
\* /start and /stop, by a finish() thread inside its with block.
HttpInLock     == http.pc \in {"start_cs", "start_run", "stop_cs"}
Publishing(t)  == tasks[t].pc \in {"set_phase", "set_wh"}
HttpWaiting    == http.pc \in {"start_lock", "stop_lock"}

LockOnlyWhereClaimed ==
    /\ lock = Http <=> HttpInLock
    /\ \A t \in DOMAIN tasks : lock = Task(t) <=> Publishing(t)
    /\ lock # Free => (lock = Http \/ \E t \in DOMAIN tasks : lock = Task(t))

\* C17 as stated: the lock is held only in the synchronous part of start
\* and stop and in the final publication of done, and a start or stop that
\* arrives while the phase is uploading finds the lock free, so it is
\* answered without a step of a finish() thread.
C17_NoWaitWhileUploading ==
    /\ LockOnlyWhereClaimed
    /\ (HttpWaiting /\ http.req.ph0 = "uploading") => lock = Free

\* C17 amended: the lock is held only in the synchronous part of start and
\* stop and in the final publication of done, never by a thread that
\* compresses, uploads or notifies; a start or stop finds the lock free
\* unless a finish() thread is inside its publication (lines 201-203), and
\* a status request is answered whoever holds the lock.
C17_LockOnlyForSyncAndPublication ==
    /\ LockOnlyWhereClaimed
    /\ \A t \in DOMAIN tasks : Working(t) => lock # Task(t)
    /\ (HttpWaiting /\ \A t \in DOMAIN tasks : ~Publishing(t)) => lock = Free
    /\ (http.pc = "idle" /\ nreq < MaxRequests) => ENABLED Status

C17_Witness ==
    /\ HttpWaiting
    /\ http.req.ph0 = "uploading"
    /\ lock = Free
    /\ \E t \in DOMAIN tasks : tasks[t].pc = "upload"

\* The 4xx status codes a handler can send.
ClientError == {"400", "404", "409"}

\* C18: every request that is a protocol error (a POST whose body is not
\* JSON, a /start whose body is JSON but no object, a request to an unknown
\* path) is answered with a 4xx status, 404 for the unknown path, and leaves
\* phase, run_id and the Supervised Process Table unchanged.
C18_ProtocolErrorsAnswered4xx ==
    [][(PostMalformed \/ StartBadBody \/ NotFound)
         => /\ resp'.code \in ClientError
            /\ NotFound => resp'.code = "404"
            /\ UNCHANGED <<phase, run_id, procs>>]_vars

\* C19: run_id is null ("None") while the phase is idle; it is written only
\* by the step of an accepted start that moves the phase from idle to
\* capturing, and that step writes the run_id of the request; no other step
\* (a rejected or failing request, a status, a step of a finish() thread)
\* changes it, so it keeps its value through uploading and done.
C19_RunIdSetOnceByStart ==
    [][/\ phase' = "idle" => run_id' = "None"
       /\ (phase = "idle" /\ phase' = "capturing")
            => (http.pc = "start_run" /\ run_id' = http.req.run_id)
       /\ run_id' # run_id
            => /\ phase = "idle" /\ phase' = "capturing"
               /\ run_id = "None"
               /\ resp'.path = "start" /\ resp'.code = "200"
               /\ resp'.run_id = run_id']_vars

C19_Witness ==
    /\ resp.path = "status"
    /\ resp.phase = "done"
    /\ resp.run_id \in RunIds
    /\ run_id = resp.run_id

\* C20: once an accepted stop has released the lock, started its finish()
\* thread and answered 200, the phase is uploading or done, in that state
\* and in every later one; so no later status reads capturing and no later
\* stop passes the check of line 191.
C20_UploadingOnceStopAnswered ==
    tasks # <<>> => phase \in {"uploading", "done"}

\* C21: every status response that reports phase done also carries
\* last_webhook_http, however do_GET interleaves with the final update of a
\* finish() thread.
C21_DoneCarriesWebhookStatus ==
    (resp.path = "status" /\ resp.phase = "done") => resp.lwh # "absent"

\* C22: every capture subprocess a start request launched stays in the
\* Supervised Process Table until stop, so that stop signals it and waits
\* for or kills it: no launched subprocess is ever left running without its
\* handle in the table, for any runner list and also after a start that
\* failed part-way.
C22_NoUntrackedSubprocess ==
    orphans = 0

====
